---- MODULE Spec2Model ----
(***************************************************************************)
(* Cross-page row selection of the artwork data table.                     *)
(*                                                                         *)
(* SelectionManager (src/src/utils/index.ts) keeps the selected ids, the   *)
(* per-page id sets, a count and the last bulk request, and writes a JSON  *)
(* record to localStorage after every mutation.  useSelection and          *)
(* useSelectionWithPage (src/src/utils/useSelection.ts) bind it to the     *)
(* page the table displays.                                                *)
(*                                                                         *)
(* Representation notes.                                                   *)
(*  - A JavaScript Set is a TLA+ set.  Array.from(set) lists a Set in      *)
(*    insertion order; the model lists it in ascending order.  Nothing in  *)
(*    the program reads the order of a stored array: loadFromStorage hands *)
(*    each array to new Set(...).                                          *)
(*  - A Map<number, Set<number>> is a function whose domain is the set of  *)
(*    pages that have an entry.                                            *)
(*  - A JSON value is a tagged record: [t |-> "null"], [t |-> "arr", v |-> *)
(*    sequence], [t |-> "obj", v |-> function from keys].  An object key   *)
(*    is the decimal digit string of the page number, a sequence of digits.*)
(*  - The JavaScript event loop runs one handler at a time: an action is   *)
(*    one handler run to completion, or one resumption of a suspended      *)
(*    async function up to its next await.                                 *)
(***************************************************************************)
EXTENDS Integers, Sequences, FiniteSets, TLC

(***************************************************************************)
(* Bounds of the model.                                                    *)
(***************************************************************************)
MaxId == 2          \* row ids are 1..MaxId
MaxPage == 2        \* pages the user displays or starts a bulk run on
MaxDataPage == 2    \* the data source has no rows after this page
MaxPageSize == 2    \* longest id list one page fetch returns
MaxCount == 2       \* largest small bulk count tried (besides the limit itself)
MaxRuns == 1        \* bulkSelect runs that can be suspended at the same time
Slack == 1          \* the clock runs to one expiry window plus this many ms
MaxParamLen == 2    \* longest page parameter a URL is opened with
MaxUrlPage == 10    \* largest page the paginator goes to when the URL is followed
MaxTotalPages == 7  \* largest number of pages given to getPageRange
MaxVisible == 6     \* largest number of page links asked of getPageRange

(***************************************************************************)
(* Program constants.                                                      *)
(***************************************************************************)
MAX_BULK_SELECTION == 1000
STORAGE_EXPIRY_HOURS == 24
PAGE_CEILING == 1000

Ids == 1..MaxId
Pages == 1..MaxPage
RunIds == 1..MaxRuns
expiryTime == STORAGE_EXPIRY_HOURS * 60 * 60 * 1000
MaxTime == expiryTime + Slack
\* counts a caller may pass: small valid ones, the limit, and invalid ones
Counts == (1..MaxCount) \cup {MAX_BULK_SELECTION, MAX_BULK_SELECTION + 1, 0, -1}

VARIABLES
    state,        \* SelectionManager.state
    storage,      \* the localStorage entry under SelectionManager.storageKey
    writable,     \* whether localStorage.setItem succeeds (quota, private mode)
    now,          \* Date.now()
    runs,         \* the performBulkSelection activations, one per run slot
    currentPage,  \* the page useSelectionWithPage is bound to
    table,        \* what ArtworkTable shows and the page requests in flight
    request,      \* the activation of ArtworkApiService.fetchArtworks
    selectedCount, \* the selectedCount state of useSelection
    pageParam,    \* the page parameter of window.location.search
    pager,        \* the last call of getPageRange and what it returned
    lastCall      \* the last operation called and how it ended

vars == <<state, storage, writable, now, runs, currentPage, table, request,
          selectedCount, pageParam, pager, lastCall>>

(***************************************************************************)
(* Sets, arrays and strings.                                               *)
(***************************************************************************)
Min(a, b) == IF a <= b THEN a ELSE b
Max(a, b) == IF a >= b THEN a ELSE b

Range(s) == {s[i] : i \in 1..Len(s)}

\* Array.prototype.slice(0, n) for n >= 0
Slice(s, n) == SubSeq(s, 1, Min(n, Len(s)))

\* Array.from(set)
RECURSIVE ArrayFrom(_)
ArrayFrom(S) ==
    IF S = {} THEN <<>>
    ELSE LET m == CHOOSE x \in S : \A y \in S : x <= y
         IN <<m>> \o ArrayFrom(S \ {m})

\* Number.prototype.toString() of a positive integer: its decimal digits
RECURSIVE toString(_)
toString(n) == IF n < 10 THEN <<n>> ELSE toString(n \div 10) \o <<n % 10>>

\* parseInt(s, 10) of a non-empty digit string
RECURSIVE ParseInt(_)
ParseInt(s) ==
    IF Len(s) = 1 THEN s[1]
    ELSE 10 * ParseInt(SubSeq(s, 1, Len(s) - 1)) + s[Len(s)]

JNull == [t |-> "null"]
JArr(s) == [t |-> "arr", v |-> s]
JObj(f) == [t |-> "obj", v |-> f]

\* new Set(x): null and undefined give the empty set, an array its elements
NewSet(j) == IF j.t = "arr" THEN Range(j.v) ELSE {}

(***************************************************************************)
(* SelectionManager state.                                                 *)
(***************************************************************************)
NoBulk == {}
EmptyMap == [p \in {} |-> {}]

\* SelectionManager.constructor, before loadFromStorage
EmptyState ==
    [selectedIds |-> {}, pageSelections |-> EmptyMap, totalSelected |-> 0,
     lastBulkSelection |-> NoBulk]

\* Map.prototype.set
MapSet(m, k, v) == [q \in DOMAIN m \cup {k} |-> IF q = k THEN v ELSE m[q]]

\* Map.prototype.delete
MapDelete(m, k) == [q \in DOMAIN m \ {k} |-> m[q]]

\* a count kept by incrementing instead of recomputing
updateTotalSelectedByOne(s) ==
    [s EXCEPT !.totalSelected = @ + 1]

updateTotalSelected(s) ==
    [s EXCEPT !.totalSelected = Cardinality(s.selectedIds)]

(***************************************************************************)
(* Operations of SelectionManager.  Each takes and returns a record        *)
(* [state, storage, threw]: the manager's state, the storage entry and     *)
(* whether an exception is propagating to the caller.  t is Date.now()     *)
(* during the call and ok tells whether localStorage.setItem succeeds.     *)
(***************************************************************************)
Absent == [kind |-> "absent"]
Garbage == [kind |-> "garbage"]
\* a storage whose getItem throws while removeItem works
Unreadable == [kind |-> "unreadable"]
\* a storage of which every access throws (access denied by the browser)
Unavailable == [kind |-> "unavailable"]
Json(d) == [kind |-> "json", data |-> d]

\* a record whose selectedIds are collected from the page sets
StoredSelectionDataFromPages(s, t) ==
    [t |-> "obj",
     selectedIds |->
        JArr(ArrayFrom(UNION {s.pageSelections[p] : p \in DOMAIN s.pageSelections})),
     pageSelections |->
        JObj([k \in {toString(p) : p \in DOMAIN s.pageSelections} |->
                JArr(ArrayFrom(s.pageSelections[
                    CHOOSE p \in DOMAIN s.pageSelections : toString(p) = k]))]),
     totalSelected |-> s.totalSelected,
     timestamp |-> t]

\* the StoredSelectionData that saveToStorage and exportState build
StoredSelectionData(s, t) ==
    [t |-> "obj",
     selectedIds |-> JArr(ArrayFrom(s.selectedIds)),
     pageSelections |->
        JObj([k \in {toString(p) : p \in DOMAIN s.pageSelections} |->
                JArr(ArrayFrom(s.pageSelections[
                    CHOOSE p \in DOMAIN s.pageSelections : toString(p) = k]))]),
     totalSelected |-> s.totalSelected,
     timestamp |-> t]

\* a save without the try/catch: the failure of setItem reaches the caller
saveToStorageUncaught(w, t, ok) ==
    IF ok
    THEN [w EXCEPT !.storage = Json(StoredSelectionData(w.state, t))]
    ELSE [w EXCEPT !.threw = TRUE]

saveToStorage(w, t, ok) ==
    IF ok
    THEN [w EXCEPT !.storage = Json(StoredSelectionData(w.state, t))]
    ELSE w   \* setItem threw: caught and logged

\* the Map that loadFromStorage and importState build from data.pageSelections
RestoredPages(o) ==
    [p \in {ParseInt(k) : k \in DOMAIN o} |->
        NewSet(o[CHOOSE k \in DOMAIN o : ParseInt(k) = p])]

\* an expiry test that discards a record at the end of its window
ExpiredAtWindow(data, t) == t - data.timestamp >= expiryTime

\* the expiry test with its operands exchanged
ExpiredSwapped(data, t) == data.timestamp - t > expiryTime

\* Date.now() - data.timestamp > expiryTime
Expired(data, t) == t - data.timestamp > expiryTime

loadFromStorage(w, t) ==
    LET stored == w.storage
        purged == [w EXCEPT !.storage = Absent]   \* removeItem in catch / on expiry
    IN  IF stored.kind = "absent" THEN w
        ELSE IF stored.kind = "unreadable" THEN w          \* getItem throws: caught
        ELSE IF stored.kind = "unavailable"                \* ... and removeItem
        THEN [w EXCEPT !.threw = TRUE]                     \* throws in the catch
        ELSE IF stored.kind = "garbage" THEN purged        \* JSON.parse throws
        ELSE LET data == stored.data IN
             IF data.t # "obj" THEN purged                  \* data.timestamp throws
             ELSE IF Expired(data, t) THEN purged
             ELSE LET s1 == [w.state EXCEPT !.selectedIds = NewSet(data.selectedIds)]
                  IN  IF data.pageSelections.t # "obj"
                      THEN [purged EXCEPT !.state = s1]     \* Object.entries throws
                      ELSE [w EXCEPT !.state =
                              [s1 EXCEPT
                                 !.pageSelections = RestoredPages(data.pageSelections.v),
                                 !.totalSelected = data.totalSelected]]

\* new SelectionManager()
Construct(st, t) ==
    loadFromStorage([state |-> EmptyState, storage |-> st, threw |-> FALSE], t)

\* a selectRow that deselects a row that is already selected
selectRowToggling(w, pageNumber, rowId, t, ok) ==
    LET s0 == w.state
        has == rowId \in s0.selectedIds
        ps0 == IF pageNumber \in DOMAIN s0.pageSelections
               THEN s0.pageSelections
               ELSE MapSet(s0.pageSelections, pageNumber, {})
        s1 == [s0 EXCEPT
                 !.selectedIds = IF has THEN @ \ {rowId} ELSE @ \cup {rowId},
                 !.pageSelections =
                    MapSet(ps0, pageNumber,
                           IF has THEN ps0[pageNumber] \ {rowId}
                           ELSE ps0[pageNumber] \cup {rowId})]
    IN  saveToStorage([w EXCEPT !.state = updateTotalSelected(s1)], t, ok)

selectRow(w, pageNumber, rowId, t, ok) ==
    LET s0 == w.state
        ps0 == IF pageNumber \in DOMAIN s0.pageSelections
               THEN s0.pageSelections
               ELSE MapSet(s0.pageSelections, pageNumber, {})
        s1 == [s0 EXCEPT
                 !.selectedIds = @ \cup {rowId},
                 !.pageSelections = MapSet(ps0, pageNumber, ps0[pageNumber] \cup {rowId})]
    IN  saveToStorage([w EXCEPT !.state = updateTotalSelected(s1)], t, ok)

deselectRow(w, pageNumber, rowId, t, ok) ==
    LET s0 == w.state
        ps1 == IF pageNumber \in DOMAIN s0.pageSelections
               THEN LET rest == s0.pageSelections[pageNumber] \ {rowId}
                    IN  IF rest = {}
                        THEN MapDelete(s0.pageSelections, pageNumber)
                        ELSE MapSet(s0.pageSelections, pageNumber, rest)
               ELSE s0.pageSelections
        s1 == [s0 EXCEPT !.selectedIds = @ \ {rowId}, !.pageSelections = ps1]
    IN  saveToStorage([w EXCEPT !.state = updateTotalSelected(s1)], t, ok)

selectAllOnPage(w, pageNumber, rowIds, t, ok) ==
    LET s0 == w.state
        s1 == [s0 EXCEPT
                 !.selectedIds = @ \cup Range(rowIds),
                 !.pageSelections = MapSet(@, pageNumber, Range(rowIds))]
    IN  saveToStorage([w EXCEPT !.state = updateTotalSelected(s1)], t, ok)

\* a deselectAllOnPage that empties the set of the page and keeps its entry
deselectAllOnPageKeepingEntry(w, pageNumber, t, ok) ==
    LET s0 == w.state
        s1 == IF pageNumber \in DOMAIN s0.pageSelections
              THEN [s0 EXCEPT
                      !.selectedIds = @ \ s0.pageSelections[pageNumber],
                      !.pageSelections = MapSet(@, pageNumber, {})]
              ELSE s0
    IN  saveToStorage([w EXCEPT !.state = updateTotalSelected(s1)], t, ok)

deselectAllOnPage(w, pageNumber, t, ok) ==
    LET s0 == w.state
        s1 == IF pageNumber \in DOMAIN s0.pageSelections
              THEN [s0 EXCEPT
                      !.selectedIds = @ \ s0.pageSelections[pageNumber],
                      !.pageSelections = MapDelete(@, pageNumber)]
              ELSE s0
    IN  saveToStorage([w EXCEPT !.state = updateTotalSelected(s1)], t, ok)

\* a clearAllSelections that does not write
clearAllSelectionsUnsaved(w, t, ok) ==
    [w EXCEPT !.state = EmptyState]

\* a clearAllSelections that leaves the bulk metadata in place
clearAllSelectionsKeepingBulk(w, t, ok) ==
    saveToStorage(
        [w EXCEPT !.state =
            [EmptyState EXCEPT !.lastBulkSelection = w.state.lastBulkSelection]],
        t, ok)

clearAllSelections(w, t, ok) ==
    saveToStorage([w EXCEPT !.state = EmptyState], t, ok)

\* importState(data): the three fields are taken from data one after the
\* other, with no try/catch around them, and the result is saved
importState(w, data, t, ok) ==
    LET s1 == [w.state EXCEPT !.selectedIds = NewSet(data.selectedIds)]
    IN  IF data.pageSelections.t # "obj"
        THEN [w EXCEPT !.state = s1, !.threw = TRUE]   \* Object.entries throws
        ELSE saveToStorage(
                [w EXCEPT !.state =
                    [s1 EXCEPT
                       !.pageSelections = RestoredPages(data.pageSelections.v),
                       !.totalSelected = data.totalSelected]],
                t, ok)

(***************************************************************************)
(* Inputs.                                                                 *)
(***************************************************************************)
\* arrays of at most MaxPageSize ids of S, without repetition
IdListsOver(S) ==
    {l \in UNION {[1..n -> S] : n \in 0..MaxPageSize} :
        Cardinality(Range(l)) = Len(l)}

IdLists == IdListsOver(Ids)

\* id arrays of a data source that holds one more row than the table shows
WideLists == IdListsOver(1..(MaxId + 1))

\* what one call of getPageData(page) settles to
Fetched(l) == [ok |-> TRUE, ids |-> l]
FetchError == [ok |-> FALSE, ids |-> <<>>]
FetchResults(lists, page) ==
    IF page <= MaxDataPage
    THEN {Fetched(l) : l \in lists} \cup {FetchError}
    ELSE {Fetched(<<>>), FetchError}

Times == {0} \cup (expiryTime..MaxTime)

\* a record as a save at time 0 wrote it
SavedRecord(ids, pages) ==
    StoredSelectionData(
        [selectedIds |-> ids, pageSelections |-> pages,
         totalSelected |-> Cardinality(ids), lastBulkSelection |-> NoBulk], 0)

\* what the storage entry may hold when the application starts
InitialStorages ==
    { Absent,
      Garbage,
      Json(JNull),
      Json(SavedRecord({1}, MapSet(EmptyMap, 1, {1}))),
      \* saved when the table showed a page with a two-digit number
      Json(SavedRecord({1, 2}, MapSet(MapSet(EmptyMap, 1, {1}), 10, {2}))),
      \* pageSelections missing or null
      Json([SavedRecord({1}, EmptyMap) EXCEPT !.pageSelections = JNull]),
      \* a count that disagrees with the ids
      Json([SavedRecord({1}, MapSet(EmptyMap, 1, {1})) EXCEPT !.totalSelected = 2]) }

\* records handed to importState: one that exportState returned, one with a
\* count that disagrees with its ids, one that lists an id twice, and one
\* without pageSelections
ImportedRecords ==
    { SavedRecord({1}, MapSet(EmptyMap, 1, {1})),
      [SavedRecord({1}, MapSet(EmptyMap, 1, {1})) EXCEPT !.totalSelected = 2],
      [SavedRecord({2}, MapSet(EmptyMap, 2, {2})) EXCEPT
          !.selectedIds = JArr(<<2, 2>>), !.totalSelected = 2],
      [SavedRecord({1}, EmptyMap) EXCEPT !.pageSelections = JNull] }

(***************************************************************************)
(* Bulk selection.  A run is one activation of performBulkSelection:       *)
(* its locals, where it stands, and what its fetches returned so far.      *)
(***************************************************************************)
IdleRun ==
    [pc |-> "idle", count |-> 0, startPage |-> 0, remainingCount |-> 0,
     currentPage |-> 0, fetched |-> <<>>, end |-> "", fromEmpty |-> FALSE,
     alone |-> FALSE]

\* a guard that lets a count of zero through
InvalidCountButZero(count) == count < 0 \/ count > MAX_BULK_SELECTION

\* the guard of bulkSelect
InvalidCount(count) == count <= 0 \/ count > MAX_BULK_SELECTION

\* a slice by the requested count instead of what remains of it
idsToSelectByCount(run, pageIds) == Slice(pageIds, run.count)

\* const idsToSelect = pageIds.slice(0, remainingCount)
idsToSelect(run, pageIds) == Slice(pageIds, run.remainingCount)

\* bulk metadata with the two numbers exchanged
lastBulkSelectionExchanged(count, startPage, t) ==
    {[count |-> startPage, startPage |-> count, timestamp |-> t]}

\* this.state.lastBulkSelection = { count, startPage, timestamp: Date.now() }
lastBulkSelection(count, startPage, t) ==
    {[count |-> count, startPage |-> startPage, timestamp |-> t]}

\* performBulkSelection from its call to the first await, or to its end when
\* the loop is not entered
bulkSelect(w, startPage, count, t, ok) ==
    LET w1 == [w EXCEPT !.state.lastBulkSelection =
                  lastBulkSelection(count, startPage, t)]
        enter == count > 0
    IN  [w |-> IF enter THEN w1 ELSE saveToStorage(w1, t, ok),
         run |-> [pc |-> IF enter THEN "awaiting" ELSE "done",
                  count |-> count, startPage |-> startPage,
                  remainingCount |-> count, currentPage |-> startPage,
                  fetched |-> <<>>, end |-> IF enter THEN "" ELSE "count",
                  fromEmpty |-> /\ w.state.selectedIds = {}
                                /\ w.state.pageSelections = EmptyMap,
                  alone |-> TRUE],
         applied |-> FALSE]

\* an empty page that is processed like any other
NoMoreDataNever(pageIds) == FALSE

\* pageIds.length === 0
NoMoreData(pageIds) == Len(pageIds) = 0

\* a page counter that steps over a page
NextPageSkipping(page) == page + 2

\* currentPage++
NextPage(page) == page + 1

\* a count that is not reduced by what a page gave
RemainingKept(remainingCount, taken) == remainingCount

\* remainingCount -= idsToSelect.length
Remaining(remainingCount, taken) == remainingCount - Len(taken)

\* a catch block that goes round the loop again
LoopEndRetrying(failed, empty, page, remainingCount) ==
    IF failed THEN ""
    ELSE IF empty THEN "empty"
    ELSE IF page > PAGE_CEILING THEN "ceiling"
    ELSE IF remainingCount > 0 THEN "" ELSE "count"

\* how one round of the loop leaves it: "" when it goes round again
LoopEnd(failed, empty, page, remainingCount) ==
    IF failed THEN "error"                          \* catch: break
    ELSE IF empty THEN "empty"                      \* no more data: break
    ELSE IF page > PAGE_CEILING THEN "ceiling"      \* warning: break
    ELSE IF remainingCount > 0 THEN "" ELSE "count" \* the loop condition

\* performBulkSelection from the settling of getPageData(currentPage) with res
\* to the next await, or to its end
performBulkSelection(w, run, res, t, ok) ==
    LET hasIds == res.ok /\ ~NoMoreData(res.ids)
        w1 == IF hasIds
              THEN selectAllOnPage(w, run.currentPage, idsToSelect(run, res.ids), t, ok)
              ELSE w
        applied == hasIds /\ ~w1.threw
        remaining1 == IF applied
                      THEN Remaining(run.remainingCount, idsToSelect(run, res.ids))
                      ELSE run.remainingCount
        page1 == IF applied THEN NextPage(run.currentPage) ELSE run.currentPage
        end == LoopEnd(~res.ok \/ w1.threw, ~hasIds, page1, remaining1)
    IN  [w |-> IF end = "" THEN w1
               ELSE saveToStorage([w1 EXCEPT !.threw = FALSE], t, ok),
         run |-> [run EXCEPT
                    !.pc = IF end = "" THEN "awaiting" ELSE "done",
                    !.remainingCount = remaining1,
                    !.currentPage = page1,
                    !.end = end,
                    !.fetched = Append(@, [page |-> run.currentPage, res |-> res])],
         applied |-> hasIds]

(***************************************************************************)
(* ArtworkApiService.  An attempt is one call of fetch; what it settles to *)
(* is the validated response or the error that the catch block of          *)
(* fetchWithRetry receives.  A message is a sequence of pieces of text.    *)
(***************************************************************************)
RETRY_ATTEMPTS == 3

DigitChars == <<"0", "1", "2", "3", "4", "5", "6", "7", "8", "9">>

\* the decimal digits of n as characters
Digits(n) == [i \in 1..Len(toString(n)) |-> DigitChars[toString(n)[i] + 1]]

\* String.prototype.includes on messages
Includes(message, part) ==
    \E i \in 1..(Len(message) - Len(part) + 1) :
        SubSeq(message, i, i + Len(part) - 1) = part

\* the reason phrase of a response: empty over HTTP/2
StatusText(status) ==
    CASE status = 400 -> {<<>>, <<"Bad Request">>}
      [] status = 404 -> {<<>>, <<"Not Found">>}
      [] status = 429 -> {<<>>, <<"Too Many Requests">>}
      [] status = 500 -> {<<>>, <<"Internal Server Error">>}
      [] status = 503 -> {<<>>, <<"Service Unavailable">>}
      [] OTHER -> {<<>>}

Statuses == {400, 404, 429, 500, 503}

\* new Error(`HTTP ${response.status}: ${response.statusText}`)
HttpError(status, statusText) ==
    [name |-> "Error",
     message |-> <<"H", "T", "T", "P", " ">> \o Digits(status) \o <<":", " ">>
                    \o statusText,
     status |-> status]

\* fetch rejected: no connection
NetworkFailure == [name |-> "TypeError", message |-> <<"Failed to fetch">>, status |-> 0]
\* fetch or response.json() rejected: the signal was aborted
AbortError == [name |-> "AbortError", message |-> <<"The user aborted a request.">>, status |-> 0]
\* response.json() rejected: the body is not JSON
SyntaxError == [name |-> "SyntaxError", message |-> <<"Unexpected token">>, status |-> 0]
\* validateApiResponse threw
InvalidResponse == [name |-> "Error", message |-> <<"Invalid response format">>, status |-> 0]
\* validateApiResponse returned the data
Validated == [name |-> "", message |-> <<>>, status |-> 200]

\* what an attempt can settle to while the signal is not aborted
Outcomes ==
    {Validated, NetworkFailure, SyntaxError, InvalidResponse}
        \cup UNION {{HttpError(st, tx) : tx \in StatusText(st)} : st \in Statuses}

\* a shouldRetry that lets every error be retried
shouldRetryAlways(error) == TRUE

shouldRetry(error) ==
    IF error.name = "AbortError" THEN FALSE
    ELSE IF Includes(error.message, <<"H", "T", "T", "P", " ", "4">>) THEN FALSE
    ELSE TRUE

\* no call of fetchArtworks is in progress
NoRequest ==
    [pc |-> "idle", page |-> 0, attempt |-> 0, aborted |-> FALSE, log |-> <<>>]

\* fetchArtworks(page): the timer is set and fetchWithRetry issues its first fetch
fetchArtworks(page) ==
    [pc |-> "fetching", page |-> page, attempt |-> 1, aborted |-> FALSE, log |-> <<>>]

\* fetchWithRetry from the settling of its fetch to the delay, the return or
\* the throw
fetchWithRetry(req, outcome) ==
    LET log == Append(req.log, outcome) IN
    IF outcome = Validated
    THEN [req EXCEPT !.pc = "returned", !.log = log]
    ELSE IF req.attempt < RETRY_ATTEMPTS /\ shouldRetry(outcome)
         THEN [req EXCEPT !.pc = "delaying", !.log = log]
         ELSE [req EXCEPT !.pc = "failed", !.log = log]

(***************************************************************************)
(* The page parameter of the URL.  A parameter value is a sequence of      *)
(* characters; NoParam stands for a URL without the parameter (get returns *)
(* null).  A number is a record that tells whether it is NaN.              *)
(***************************************************************************)
NoParam == <<"null">>
NaN == [nan |-> TRUE, v |-> 0]
Num(n) == [nan |-> FALSE, v |-> n]

IsDigit(c) == c \in Range(DigitChars)
DigitOf(c) == CHOOSE d \in 0..9 : DigitChars[d + 1] = c

\* StrWhiteSpaceChar* at the start of the string
RECURSIVE TrimStart(_)
TrimStart(s) == IF s # <<>> /\ Head(s) = " " THEN TrimStart(Tail(s)) ELSE s

\* the longest prefix of s made of digits
RECURSIVE DigitPrefix(_)
DigitPrefix(s) ==
    IF s # <<>> /\ IsDigit(Head(s)) THEN <<Head(s)>> \o DigitPrefix(Tail(s)) ELSE <<>>

\* the number a sequence of digits denotes
RECURSIVE Value(_)
Value(d) ==
    IF d = <<>> THEN 0
    ELSE 10 * Value(SubSeq(d, 1, Len(d) - 1)) + DigitOf(d[Len(d)])

\* parseInt(s, 10): leading white space, a sign, then digits up to the first
\* character that is not one; NaN when there is no digit
parseInt(s) ==
    LET t == TrimStart(s)
        signed == t # <<>> /\ Head(t) \in {"-", "+"}
        d == DigitPrefix(IF signed THEN Tail(t) ELSE t)
    IN  IF d = <<>> THEN NaN
        ELSE IF signed /\ Head(t) = "-" THEN Num(-Value(d)) ELSE Num(Value(d))

\* a getInitialPage that does not test the number against 1
getInitialPageUnchecked(param) ==
    LET page == IF param # NoParam /\ param # <<>> THEN parseInt(param) ELSE Num(1)
    IN  IF page.nan THEN 1 ELSE page.v

getInitialPage(param) ==
    LET page == IF param # NoParam /\ param # <<>> THEN parseInt(param) ELSE Num(1)
    IN  IF page.nan \/ page.v < 1 THEN 1 ELSE page.v

\* values of the page parameter: every string of at most MaxParamLen
\* characters of digits, a sign, a letter, a point and a space
ParamChars == {"0", "1", "2", "9", "-", "a", ".", " "}
PageParams ==
    {NoParam} \cup UNION {[1..n -> ParamChars] : n \in 0..MaxParamLen}

UrlPages == 1..MaxUrlPage

\* the parameter after updateUrlParams(page)
updateUrlParams(page) == IF page = 1 THEN NoParam ELSE Digits(page)

(***************************************************************************)
(* Pagination helpers.                                                     *)
(***************************************************************************)
\* the numbers from start to end in ascending order
Numbers(start, end) == [i \in 1..(end - start + 1) |-> start + i - 1]

\* a range that is not moved back when it reaches the last page
getPageRangeUnadjusted(page, totalPages, maxVisible) ==
    LET half == maxVisible \div 2
        start == Max(1, page - half)
        end == Min(totalPages, start + maxVisible - 1)
    IN  Numbers(start, end)

getPageRange(page, totalPages, maxVisible) ==
    LET half == maxVisible \div 2
        start0 == Max(1, page - half)
        end == Min(totalPages, start0 + maxVisible - 1)
        start == IF end - start0 + 1 < maxVisible
                 THEN Max(1, end - maxVisible + 1)
                 ELSE start0
    IN  Numbers(start, end)

\* getPageRange has not been called
NoPager == [currentPage |-> 0, totalPages |-> 0, maxVisible |-> 0, pages |-> <<>>]

(***************************************************************************)
(* The state machine.                                                      *)
(***************************************************************************)
\* the last handler run, its numeric argument if it has one, whether it threw,
\* and for a construction the storage entry it found
Call(op, arg, threw, before) ==
    [op |-> op, arg |-> arg, threw |-> threw, before |-> before]

World == [state |-> state, storage |-> storage, threw |-> FALSE]

\* The other activations after a handler ran on behalf of run r (0: of none).
\* An activation that has returned is kept for one state, so that its final
\* values can be observed, and is then gone; one still suspended notes when
\* another handler changed the manager's state.
Others(r, changed) ==
    [q \in RunIds |->
        IF q = r THEN runs[q]
        ELSE IF runs[q].pc = "done" THEN IdleRun
        ELSE IF changed THEN [runs[q] EXCEPT !.alone = FALSE]
        ELSE runs[q]]

\* a displayed count taken from the size of selectedIds
shownCountOfIds(w) == Cardinality(w.state.selectedIds)

\* setSelectedCount(selectionManager.getTotalSelected())
shownCount(w) == w.state.totalSelected

\* useState of ArtworkTable: the page of the first render
FirstRenderPage == 1

\* ArtworkTable after its mount effect: no rows yet, the first page requested.
\* rowsOf is the page the rows on display were fetched for (0: none), asked
\* the page of the last call of fetchArtworks.
MountedAt(page) ==
    [artworks |-> <<>>, rowsOf |-> 0, selectedArtworks |-> {},
     loading |-> "loading", requests |-> {page}, asked |-> page]

\* ... when the URL has no page parameter
MountedTable == MountedAt(FirstRenderPage)

\* The application starts.  The selectedCount of useSelection is 0 at the
\* first render (useState); its mount effect, updateCount, has run when
\* mounted is TRUE and has yet to run otherwise.
InitWith(storages, times, writables, mounted) ==
    \E st \in storages, t \in times, wr \in writables :
        LET w == Construct(st, t) IN
        /\ state = w.state
        /\ storage = w.storage
        /\ writable = wr
        /\ now = t
        /\ runs = [r \in RunIds |-> IdleRun]
        /\ currentPage = FirstRenderPage
        /\ table = MountedTable
        /\ request = NoRequest
        /\ pageParam = NoParam
        /\ pager = NoPager
        /\ selectedCount = IF mounted THEN shownCount(w) ELSE 0
        /\ lastCall = Call("construct", 0, w.threw, st)

InitAt(storages, times, writables) == InitWith(storages, times, writables, FALSE)

\* the page is loaded: the module is evaluated again, suspended runs are
\* gone, the components render for the first time and the mount effect of
\* ArtworkTable requests the page of the URL
LoadAt(param) ==
    LET w == Construct(storage, now) IN
    /\ state' = w.state
    /\ storage' = w.storage
    /\ runs' = [r \in RunIds |-> IdleRun]
    /\ pageParam' = param
    /\ currentPage' = getInitialPage(param)
    /\ table' = MountedAt(getInitialPage(param))
    /\ selectedCount' = 0
    /\ lastCall' = Call("construct", 0, w.threw, storage)
    /\ UNCHANGED <<pager, request, writable, now>>

Reload == LoadAt(pageParam)

Tick ==
    \E t \in Times :
        /\ t > now
        /\ now' = t
        /\ lastCall' = Call("tick", 0, FALSE, Absent)
        /\ UNCHANGED <<pager, pageParam, selectedCount, request, table, state, storage, writable, runs, currentPage>>

\* the storage quota fills up or is freed
QuotaChange ==
    /\ writable' = ~writable
    /\ lastCall' = Call("quota", 0, FALSE, Absent)
    /\ UNCHANGED <<pager, pageParam, selectedCount, request, table, state, storage, now, runs, currentPage>>

\* a handler that calls SelectionManager mutators ends in world w, with
\* shown as the selectedCount of the hook
ReturnsWith(w, op, shown) ==
    /\ state' = w.state
    /\ storage' = w.storage
    /\ runs' = Others(0, TRUE)
    /\ selectedCount' = shown
    /\ lastCall' = Call(op, 0, w.threw, Absent)
    /\ UNCHANGED <<pager, pageParam, request, table, writable, now, currentPage>>

\* a call of the manager that does not go through the hook
Returns(w, op) == ReturnsWith(w, op, selectedCount)

SelectRow ==
    \E p \in Pages, id \in Ids :
        Returns(selectRow(World, p, id, now, writable), "selectRow")

DeselectRow ==
    \E p \in Pages, id \in Ids :
        Returns(deselectRow(World, p, id, now, writable), "deselectRow")

SelectAllOnPage ==
    \E p \in Pages, ids \in IdLists :
        Returns(selectAllOnPage(World, p, ids, now, writable), "selectAllOnPage")

DeselectAllOnPage ==
    \E p \in Pages :
        Returns(deselectAllOnPage(World, p, now, writable), "deselectAllOnPage")

ClearAllSelections ==
    Returns(clearAllSelections(World, now, writable), "clearAllSelections")

ImportState ==
    \E data \in ImportedRecords :
        Returns(importState(World, data, now, writable), "importState")

\* a call of SelectionManager.bulkSelect
BulkSelectFor(startPages, counts) ==
    \E startPage \in startPages, count \in counts :
        IF InvalidCount(count)
        THEN /\ lastCall' = Call("bulkSelect", count, TRUE, Absent)
             /\ UNCHANGED <<pager, pageParam, selectedCount, request, table, state, storage,
                            writable, now, runs, currentPage>>
        ELSE \E r \in RunIds :
             LET b == bulkSelect(World, startPage, count, now, writable) IN
             /\ runs[r].pc \in {"idle", "done"}
             /\ state' = b.w.state
             /\ storage' = b.w.storage
             /\ runs' = [Others(r, TRUE) EXCEPT ![r] = b.run]
             /\ lastCall' = Call("bulkSelect", count, b.w.threw, Absent)
             /\ UNCHANGED <<pager, pageParam, selectedCount, request, table, writable, now, currentPage>>

BulkSelect == BulkSelectFor(Pages, Counts)

\* run r resumes with the result res of the fetch it awaits
Resume(r, res) ==
    LET b == performBulkSelection(World, runs[r], res, now, writable) IN
    /\ state' = b.w.state
    /\ storage' = b.w.storage
    /\ runs' = [Others(r, b.applied) EXCEPT ![r] = b.run]
    /\ lastCall' = Call(IF b.applied THEN "bulkSelect.page" ELSE "bulkSelect.stop",
                        runs[r].count, b.w.threw, Absent)
    /\ UNCHANGED <<pager, pageParam, selectedCount, request, table, writable, now, currentPage>>

\* the fetch a suspended run awaits settles, with an id array of lists or an error
BulkResumeOn(lists) ==
    \E r \in RunIds :
      /\ runs[r].pc = "awaiting"
      /\ \E res \in FetchResults(lists, runs[r].currentPage) : Resume(r, res)

BulkResume == BulkResumeOn(IdLists)

BulkResumeWide == BulkResumeOn(WideLists)

\* start pages at the end of the range the loop accepts
StartsNearCeiling == {PAGE_CEILING - 1, PAGE_CEILING}

BulkSelectNearCeiling ==
    BulkSelectFor(StartsNearCeiling, {MaxCount, MAX_BULK_SELECTION})

BulkSelectSmall == BulkSelectFor(Pages, 1..MaxCount)

\* the fetch that run r awaits settles, on a data source that has rows on
\* every page
BulkResumeUnboundedOf(r) ==
    /\ runs[r].pc = "awaiting"
    /\ \E res \in {Fetched(l) : l \in IdLists} \cup {FetchError} : Resume(r, res)

BulkResumeUnbounded == \E r \in RunIds : BulkResumeUnboundedOf(r)

(***************************************************************************)
(* useSelectionWithPage(currentPage): each callback calls the manager for  *)
(* the current page and then the callback of useSelection of the same name.*)
(***************************************************************************)
Then(w, next) == IF w.threw THEN w ELSE next

\* what the hook shows after a callback that ended in world w
Shown(w) == IF w.threw THEN selectedCount ELSE shownCount(w)

HookSelectRow ==
    \E id \in Ids :
        LET w1 == selectRow(World, currentPage, id, now, writable)
            w2 == Then(w1, selectRow(w1, 1, id, now, writable))
        IN  ReturnsWith(w2, "hook.selectRow", Shown(w2))

HookDeselectRow ==
    \E id \in Ids :
        LET w1 == deselectRow(World, currentPage, id, now, writable)
            w2 == Then(w1, deselectRow(w1, 1, id, now, writable))
        IN  ReturnsWith(w2, "hook.deselectRow", Shown(w2))

SelectAllOnCurrentPage ==
    \E ids \in IdLists :
        LET w1 == selectAllOnPage(World, currentPage, ids, now, writable)
            w2 == Then(w1, selectAllOnPage(w1, 1, ids, now, writable))
        IN  ReturnsWith(w2, "hook.selectAllOnCurrentPage", Shown(w2))

DeselectAllOnCurrentPage ==
    LET w1 == deselectAllOnPage(World, currentPage, now, writable)
        w2 == Then(w1, clearAllSelections(w1, now, writable))
    IN  ReturnsWith(w2, "hook.deselectAllOnCurrentPage",
                    IF w2.threw THEN selectedCount ELSE 0)

\* clearSelections of useSelection
HookClearSelections ==
    LET w1 == clearAllSelections(World, now, writable)
    IN  ReturnsWith(w1, "hook.clearSelections",
                    IF w1.threw THEN selectedCount ELSE 0)

\* a page fetcher that returns a row for the first page
getPageDataOfFirstPage(page) == IF page = 1 THEN Fetched(<<1>>) ELSE Fetched(<<>>)

\* the page fetcher that bulkSelect of useSelection passes: no ids
getPageData(page) == Fetched(<<>>)

\* selectionManager.bulkSelect(1, count, getPageData) to its end: the fetcher
\* settles without a task in between, so no other handler runs before the
\* run has returned
RECURSIVE RunToEnd(_, _, _)
RunToEnd(b, t, ok) ==
    IF b.run.pc = "done" THEN b
    ELSE RunToEnd(performBulkSelection(b.w, b.run, getPageData(b.run.currentPage),
                                       t, ok), t, ok)

\* bulkSelect of useSelection
HookBulkSelect ==
    \E count \in Counts :
        IF InvalidCount(count)
        THEN /\ lastCall' = Call("hook.bulkSelect", count, TRUE, Absent)
             /\ UNCHANGED <<pager, pageParam, state, storage, writable, now, runs, currentPage,
                            table, request, selectedCount>>
        ELSE LET b == RunToEnd(bulkSelect(World, 1, count, now, writable),
                               now, writable)
             IN  /\ state' = b.w.state
                 /\ storage' = b.w.storage
                 /\ runs' = Others(0, TRUE)
                 /\ selectedCount' = shownCount(b.w)
                 /\ lastCall' = Call("hook.bulkSelect", count, FALSE, Absent)
                 /\ UNCHANGED <<pager, pageParam, request, table, writable, now, currentPage>>

\* updateCount of useSelection, called by its interval
UpdateCount ==
    /\ selectedCount' = shownCount(World)
    /\ lastCall' = Call("hook.updateCount", 0, FALSE, Absent)
    /\ UNCHANGED <<pager, pageParam, state, storage, writable, now, runs, currentPage, table,
                   request>>

\* handlePageChange: the table is set to another page, the URL is updated
\* and fetchArtworks is called for the page, up to its await
PageChangeTo(pages) ==
    \E p \in pages :
        /\ p # currentPage
        /\ currentPage' = p
        /\ pageParam' = updateUrlParams(p)
        /\ table' = [table EXCEPT !.loading = "loading", !.requests = @ \cup {p},
                                  !.asked = p]
        /\ lastCall' = Call("pageChange", p, FALSE, Absent)
        /\ UNCHANGED <<pager, selectedCount, request, state, storage, writable, now, runs>>

PageChange == PageChangeTo(Pages)

\* pages up to a number of two digits
PageChangeWide == PageChangeTo(UrlPages)

\* the application is opened with a URL that someone typed or followed
OpenUrl == \E param \in PageParams : LoadAt(param)

\* SelectionManager.getPageSelections
getPageSelections(s, pageNumber) ==
    IF pageNumber \in DOMAIN s.pageSelections
    THEN s.pageSelections[pageNumber]
    ELSE {}

\* the rows fetchArtworks marks as selected.  fetchArtworks is created once
\* (useCallback with no dependencies), so the selection object it calls is
\* the one of the first render, bound to the page of that render.
selectedArtworks(s, rows) ==
    {id \in Range(rows) : id \in getPageSelections(s, FirstRenderPage)}

\* fetchArtworks resumes with the response for page p: the rows are stored,
\* the table is set to the page of the response, and the selection restored
TableLoaded ==
    \E p \in table.requests, rows \in IdLists :
        /\ table' = [artworks |-> rows, rowsOf |-> p,
                     selectedArtworks |-> selectedArtworks(state, rows),
                     loading |-> "success", requests |-> table.requests \ {p},
                     asked |-> table.asked]
        /\ currentPage' = p
        /\ lastCall' = Call("table.loaded", p, FALSE, Absent)
        /\ UNCHANGED <<pager, pageParam, selectedCount, request, state, storage, writable, now, runs>>

\* fetchArtworks resumes with a failure: the rows are dropped
TableLoadFailed ==
    \E p \in table.requests :
        /\ table' = [table EXCEPT !.artworks = <<>>, !.rowsOf = 0,
                                  !.loading = "error", !.requests = @ \ {p}]
        /\ lastCall' = Call("table.failed", p, FALSE, Absent)
        /\ UNCHANGED <<pager, pageParam, selectedCount, request, state, storage, writable, now, runs, currentPage>>

(***************************************************************************)
(* One call of ArtworkApiService.fetchArtworks, attempt by attempt.        *)
(***************************************************************************)
Step(req, op, arg) ==
    /\ request' = req
    /\ lastCall' = Call(op, arg, req.pc = "failed", Absent)
    /\ UNCHANGED <<pager, pageParam, state, storage, writable, now, runs, currentPage, table,
                   selectedCount>>

\* fetchArtworks is called while no call of it is in progress
FetchArtworks ==
    \E page \in Pages :
        /\ request.pc \in {"idle", "returned", "failed"}
        /\ Step(fetchArtworks(page), "fetchArtworks", page)

\* the fetch of the current attempt settles; a fetch whose signal is aborted
\* rejects with an AbortError
FetchSettles ==
    /\ request.pc = "fetching"
    /\ \E outcome \in IF request.aborted THEN {AbortError} ELSE Outcomes :
          Step(fetchWithRetry(request, outcome), "fetch.settled", request.attempt)

\* the delay before a retry is over: fetchWithRetry calls itself with
\* attempt + 1
DelayEnds ==
    /\ request.pc = "delaying"
    /\ Step([request EXCEPT !.pc = "fetching", !.attempt = @ + 1],
            "fetch.retry", request.attempt + 1)

\* the timer of fetchArtworks fires before the call has ended
Timeout ==
    /\ request.pc \in {"fetching", "delaying"}
    /\ ~request.aborted
    /\ Step([request EXCEPT !.aborted = TRUE], "fetch.timeout", request.attempt)

\* getPageRange is called for the page links of a paginator
GetPageRange ==
    \E page \in 1..MaxTotalPages, totalPages \in 0..MaxTotalPages,
       maxVisible \in 0..MaxVisible :
        /\ pager' = [currentPage |-> page, totalPages |-> totalPages,
                     maxVisible |-> maxVisible,
                     pages |-> getPageRange(page, totalPages, maxVisible)]
        /\ lastCall' = Call("getPageRange", page, FALSE, Absent)
        /\ UNCHANGED <<state, storage, writable, now, runs, currentPage, table,
                       request, selectedCount, pageParam>>

(***************************************************************************)
(* Specifications.                                                         *)
(***************************************************************************)
Calls ==
    \/ SelectRow
    \/ DeselectRow
    \/ SelectAllOnPage
    \/ DeselectAllOnPage
    \/ ClearAllSelections

\* The manager under any sequence of calls, bulk runs included, started on
\* any stored entry.
Init == InitAt(InitialStorages, {0}, {TRUE})
Next == Calls \/ BulkSelect \/ BulkResume
Spec == Init /\ [][Next]_vars

\* The same calls when the storage refuses every write.
InitQuota == InitAt({Absent}, {0}, {FALSE})
SpecQuota == InitQuota /\ [][Next]_vars

\* The table on a first visit, driven through the view binding as well.
InitFresh == InitAt({Absent}, {0}, {TRUE})
NextFresh ==
    \/ Calls
    \/ HookSelectRow
    \/ HookDeselectRow
    \/ SelectAllOnCurrentPage
    \/ DeselectAllOnCurrentPage
    \/ PageChange
SpecFresh == InitFresh /\ [][NextFresh]_vars

\* Persistence: time passes, the page is reloaded, the quota comes and goes.
InitStore == InitAt(InitialStorages, Times, BOOLEAN)
NextStore == Calls \/ Tick \/ Reload \/ QuotaChange
SpecStore == InitStore /\ [][NextStore]_vars

\* Bulk runs over a data source with more rows, on a fresh table.
NextBulk == BulkSelect \/ BulkResumeWide \/ ClearAllSelections \/ SelectRow
SpecBulk == InitFresh /\ [][NextBulk]_vars

\* Bulk runs over a data source without end; the fetch of every run settles
\* and the function that awaits it is resumed.
NextLive == BulkSelectSmall \/ BulkSelectNearCeiling \/ BulkResumeUnbounded
SpecLive ==
    /\ InitFresh
    /\ [][NextLive]_vars
    /\ \A r \in RunIds : WF_vars(BulkResumeUnboundedOf(r))

\* Bulk runs while the clock advances.
NextTimed == BulkSelect \/ BulkResume \/ ClearAllSelections \/ Tick
SpecTimed == InitFresh /\ [][NextTimed]_vars

\* The manager when a backup is imported between the calls.
NextImport == Calls \/ ImportState
SpecImport == Init /\ [][NextImport]_vars

\* Startup on a storage that is empty, unparsable or out of order.  When the
\* constructor threw, the module that exports the manager failed to load and
\* nothing can be called until the page is loaded again.
Running == ~(lastCall.op = "construct" /\ lastCall.threw)
InitStartup ==
    \/ InitAt({Absent, Garbage}, {0}, {TRUE})
    \/ InitAt({Unreadable, Unavailable}, {0}, {FALSE})
NextStartup == (Running /\ Calls) \/ Reload
SpecStartup == InitStartup /\ [][NextStartup]_vars

\* The table: pages are requested and arrive while rows are selected through
\* the view binding.
NextTable ==
    \/ HookSelectRow
    \/ HookDeselectRow
    \/ SelectAllOnCurrentPage
    \/ DeselectAllOnCurrentPage
    \/ PageChange
    \/ TableLoaded
    \/ TableLoadFailed
SpecTable == InitFresh /\ [][NextTable]_vars

\* The API service: one page is fetched, with retries and a timeout.
NextRetry == FetchArtworks \/ FetchSettles \/ DelayEnds \/ Timeout
SpecRetry == InitFresh /\ [][NextRetry]_vars

\* The view binding with all its callbacks, on any stored entry, from the
\* mount effect of useSelection on.  The application calls the manager
\* through the view binding only.
InitHook == InitWith(InitialStorages, {0}, {TRUE}, TRUE)
NextHook ==
    \/ HookSelectRow
    \/ HookDeselectRow
    \/ SelectAllOnCurrentPage
    \/ DeselectAllOnCurrentPage
    \/ HookClearSelections
    \/ HookBulkSelect
    \/ UpdateCount
    \/ PageChange
SpecHook == InitHook /\ [][NextHook]_vars

\* The URL: the application is opened with any page parameter, pages are
\* changed and the application is loaded again.
NextUrl == OpenUrl \/ PageChangeWide \/ Reload
SpecUrl == InitFresh /\ [][NextUrl]_vars

\* The page links, for any page, number of pages and number of links.
NextPager == GetPageRange
SpecPager == InitFresh /\ [][NextPager]_vars

(***************************************************************************)
(* Properties.                                                             *)
(***************************************************************************)
\* the handlers that change selectedIds or pageSelections
SelectionMutators ==
    {"selectRow", "deselectRow", "selectAllOnPage", "deselectAllOnPage",
     "clearAllSelections", "bulkSelect.page", "hook.selectRow",
     "hook.deselectRow", "hook.selectAllOnCurrentPage",
     "hook.deselectAllOnCurrentPage"}

PageUnion(s) == UNION {s.pageSelections[p] : p \in DOMAIN s.pageSelections}

C2_SelectedIdsIsUnionOfPages ==
    lastCall.op \in SelectionMutators => state.selectedIds = PageUnion(state)

\* C3: no page entry of pageSelections holds an empty set.
C3_NoEmptyPageEntry ==
    \A p \in DOMAIN state.pageSelections : state.pageSelections[p] # {}

\* C4: 'deselect all on this page' through the view binding leaves the entry
\* of every other page as it was, and the ids of those entries that were
\* selected stay in selectedIds.
C4_DeselectAllOnCurrentPageKeepsOtherPages ==
    [][lastCall'.op = "hook.deselectAllOnCurrentPage" =>
         \A q \in DOMAIN state.pageSelections \ {currentPage} :
            /\ q \in DOMAIN state'.pageSelections
            /\ state'.pageSelections[q] = state.pageSelections[q]
            /\ (state.pageSelections[q] \cap state.selectedIds)
                  \subseteq state'.selectedIds]_vars

(***************************************************************************)
(* Persistence.                                                            *)
(***************************************************************************)
SameSelection(a, b) ==
    /\ a.selectedIds = b.selectedIds
    /\ a.pageSelections = b.pageSelections
    /\ a.totalSelected = b.totalSelected

\* the handlers that end with a save of the selection
SavingCalls ==
    {"selectRow", "deselectRow", "selectAllOnPage", "deselectAllOnPage",
     "clearAllSelections", "bulkSelect.page", "bulkSelect.stop"}

\* the entry parses to an object
IsRecord(st) == st.kind = "json" /\ st.data.t = "obj"

\* C5: when the last call saved the selection, a SelectionManager constructed
\* from the stored record at any time within the expiry window of the record
\* has the same selectedIds, pageSelections and totalSelected.
C5_ReloadRestoresSavedSelection ==
    (lastCall.op \in SavingCalls /\ writable) =>
        /\ IsRecord(storage)
        /\ \A t \in Times :
              (t >= now /\ t - storage.data.timestamp <= expiryTime) =>
                  SameSelection(Construct(storage, t).state, state)

\* a selection on three pages, one with a two-digit number, and with an id no
\* page holds, was saved at the end of the first window and can still be loaded
\* one millisecond later
C5_Witness ==
    /\ lastCall.op \in SavingCalls
    /\ writable
    /\ DOMAIN state.pageSelections = {1, 2, 10}
    /\ state.selectedIds # PageUnion(state)
    /\ now = expiryTime
    /\ \E t \in Times : t > now

\* C6: a construction that finds a record older than the expiry window ends
\* in the empty state and removes the storage entry.
C6_ExpiredRecordIsDiscarded ==
    (/\ lastCall.op = "construct"
     /\ IsRecord(lastCall.before)
     /\ now - lastCall.before.data.timestamp > expiryTime) =>
        (state = EmptyState /\ storage = Absent)

\* a record holding a selection was found one millisecond after its window
C6_Witness ==
    /\ lastCall.op = "construct"
    /\ IsRecord(lastCall.before)
    /\ now - lastCall.before.data.timestamp = expiryTime + 1
    /\ NewSet(lastCall.before.data.selectedIds) = {2}
    /\ state = EmptyState
    /\ storage = Absent

\* the entry is unparsable, or parses to something whose fields are not those
\* of a StoredSelectionData
Malformed(st) ==
    \/ st.kind = "garbage"
    \/ /\ st.kind = "json"
       /\ \/ st.data.t # "obj"
          \/ st.data.selectedIds.t # "arr"
          \/ st.data.pageSelections.t # "obj"

\* C7: a construction that finds no entry, or an unparsable or malformed one,
\* ends in the empty state, and a malformed entry is removed.
C7_CorruptRecordGivesEmptyState ==
    lastCall.op = "construct" =>
        /\ lastCall.before = Absent => state = EmptyState
        /\ Malformed(lastCall.before) => (state = EmptyState /\ storage = Absent)

\* C8: in every reachable state, each mutator and each step of a bulk run,
\* called when the storage write fails, does not throw and leaves the manager
\* (and the run) exactly as the same call does when the write succeeds.
C8_WriteFailureIsAbsorbed ==
    LET Same(f, g) == ~f.threw /\ f.state = g.state IN
    /\ \A p \in Pages, id \in Ids :
          /\ Same(selectRow(World, p, id, now, FALSE),
                  selectRow(World, p, id, now, TRUE))
          /\ Same(deselectRow(World, p, id, now, FALSE),
                  deselectRow(World, p, id, now, TRUE))
    /\ \A p \in Pages, ids \in IdLists :
          Same(selectAllOnPage(World, p, ids, now, FALSE),
               selectAllOnPage(World, p, ids, now, TRUE))
    /\ \A p \in Pages :
          Same(deselectAllOnPage(World, p, now, FALSE),
               deselectAllOnPage(World, p, now, TRUE))
    /\ Same(clearAllSelections(World, now, FALSE),
            clearAllSelections(World, now, TRUE))
    /\ \A r \in RunIds :
          runs[r].pc = "awaiting" =>
              \A res \in FetchResults(IdLists, runs[r].currentPage) :
                  LET f == performBulkSelection(World, runs[r], res, now, FALSE)
                      g == performBulkSelection(World, runs[r], res, now, TRUE)
                  IN  Same(f.w, g.w) /\ f.run = g.run
    /\ lastCall.op \in SavingCalls => ~lastCall.threw

\* the storage refused every write, nothing is stored, and a bulk run has
\* applied a page: its ids are selected in memory
C8_Witness ==
    /\ ~writable
    /\ storage = Absent
    /\ lastCall.op = "bulkSelect.page"
    /\ ~lastCall.threw
    /\ state.selectedIds # {}

\* C9: a bulkSelect call with count <= 0 or count > 1000 throws, fetches no
\* page, and leaves the manager's state and the stored record unchanged.
C9_InvalidCountChangesNothing ==
    [][(/\ lastCall'.op = "bulkSelect"
        /\ (lastCall'.arg <= 0 \/ lastCall'.arg > MAX_BULK_SELECTION)) =>
          (/\ lastCall'.threw
           /\ state' = state
           /\ storage' = storage
           /\ runs' = runs)]_vars

\* bulkSelect was called with 1001 on a manager that holds a selection
C9_Witness ==
    /\ lastCall.op = "bulkSelect"
    /\ lastCall.arg = MAX_BULK_SELECTION + 1
    /\ lastCall.threw
    /\ state.selectedIds # {}
    /\ state.lastBulkSelection = NoBulk

(***************************************************************************)
(* Bulk selection.                                                         *)
(***************************************************************************)
\* the fetches of a run that returned ids
Processed(log) == {i \in 1..Len(log) : log[i].res.ok /\ Len(log[i].res.ids) > 0}

\* what is left of count c when the i-th fetch of log settles
RECURSIVE RemainingAt(_, _, _)
RemainingAt(log, c, i) ==
    IF i = 1 THEN c
    ELSE LET r == RemainingAt(log, c, i - 1)
         IN  r - Min(r, Len(log[i - 1].res.ids))

\* the ids the first i fetches of log returned, counted
RECURSIVE Supplied(_, _)
Supplied(log, i) ==
    IF i = 0 THEN 0 ELSE Supplied(log, i - 1) + Len(log[i].res.ids)

FirstIds(l, n) == {l[k] : k \in 1..Min(n, Len(l))}

PairwiseDistinct(log) ==
    \A i, j \in Processed(log) :
        i # j => Range(log[i].res.ids) \cap Range(log[j].res.ids) = {}

\* C10: a bulk run started on an empty selection, with no other call in
\* between and pages of pairwise distinct ids, fetches pages startPage,
\* startPage + 1, ... and leaves for each page that returned ids exactly the
\* first min(remaining, length) ids of it, no other page entry, and
\* totalSelected = count when the processed pages supplied at least count ids.
C10_BulkTakesFirstIdsOfEachPage ==
    \A r \in RunIds :
        LET run == runs[r]
            log == run.fetched
            Taken(i) == FirstIds(log[i].res.ids, RemainingAt(log, run.count, i))
        IN  (/\ run.pc = "done"
             /\ run.fromEmpty
             /\ run.alone
             /\ PairwiseDistinct(log)) =>
                /\ \A i \in 1..Len(log) : log[i].page = run.startPage + i - 1
                /\ DOMAIN state.pageSelections = {log[i].page : i \in Processed(log)}
                /\ \A i \in Processed(log) :
                      state.pageSelections[log[i].page] = Taken(i)
                /\ state.selectedIds = UNION {Taken(i) : i \in Processed(log)}
                /\ Supplied(log, Len(log)) >= run.count =>
                      state.totalSelected = run.count

\* the example of the specification scaled down: f(1) = [1], f(2) = [2, 3],
\* bulkSelect(1, 2, f) gives pageSelections {1: {1}, 2: {2}}
C10_Witness ==
    \E r \in RunIds :
        /\ runs[r].pc = "done"
        /\ runs[r].fromEmpty
        /\ runs[r].alone
        /\ runs[r].startPage = 1
        /\ runs[r].count = 2
        /\ Len(runs[r].fetched) = 2
        /\ runs[r].fetched[1].res = Fetched(<<1>>)
        /\ runs[r].fetched[2].res = Fetched(<<2, 3>>)
        /\ state.pageSelections = MapSet(MapSet(EmptyMap, 1, {1}), 2, {2})
        /\ state.selectedIds = {1, 2}
        /\ state.totalSelected = 2

\* the fetch that run r awaits settles with res in this step
SettlesWith(r, res) ==
    /\ runs[r].pc = "awaiting"
    /\ runs'[r].fetched =
          Append(runs[r].fetched, [page |-> runs[r].currentPage, res |-> res])

\* the ids a run took from the i-th page it fetched
Taken(run, i) ==
    FirstIds(run.fetched[i].res.ids, RemainingAt(run.fetched, run.count, i))

\* what the run took from each page that returned ids is selected, globally
\* and under that page
KeepsPages(run, s) ==
    \A i \in Processed(run.fetched) :
        /\ Taken(run, i) \subseteq s.selectedIds
        /\ run.fetched[i].page \in DOMAIN s.pageSelections
        /\ s.pageSelections[run.fetched[i].page] = Taken(run, i)

\* a run that has returned fetches nothing more
DoneFetchesNoMore(r) ==
    runs[r].pc = "done" => runs'[r].fetched \in {runs[r].fetched, <<>>}

\* C11: when the fetch of a page settles with an empty id list while the run
\* still has ids to take, the run ends there without an error and fetches no
\* later page, the selection is left as it was, and (no other call having
\* come in between) what the run took from the earlier pages is selected.
C11_EmptyPageEndsRun ==
    [][\A r \in RunIds :
         /\ DoneFetchesNoMore(r)
         /\ SettlesWith(r, Fetched(<<>>)) =>
               /\ runs[r].remainingCount > 0
               /\ runs'[r].pc = "done"
               /\ runs'[r].end = "empty"
               /\ ~lastCall'.threw
               /\ state' = state
               /\ runs[r].alone => KeepsPages(runs'[r], state')]_vars

\* a run for two ids took one id from page 1 and found page 2 empty
C11_Witness ==
    \E r \in RunIds :
        /\ lastCall.op = "bulkSelect.stop"
        /\ ~lastCall.threw
        /\ runs[r].pc = "done"
        /\ runs[r].end = "empty"
        /\ runs[r].alone
        /\ runs[r].count = 2
        /\ runs[r].remainingCount = 1
        /\ Len(runs[r].fetched) = 2
        /\ runs[r].fetched[1].res = Fetched(<<1>>)
        /\ runs[r].fetched[2].res = Fetched(<<>>)
        /\ state.selectedIds = {1}
        /\ state.pageSelections = MapSet(EmptyMap, 1, {1})

\* C12: when the fetch of page p fails, the run ends there (the page counter
\* stays at p and no further fetch is issued), the selection is left as it
\* was, what the run took from the earlier pages is selected (no other call
\* having come in between), and the record then written is that state.
C12_FetchFailureKeepsProgress ==
    [][\A r \in RunIds :
         SettlesWith(r, FetchError) =>
            /\ runs'[r].pc = "done"
            /\ runs'[r].end = "error"
            /\ runs'[r].currentPage = runs[r].currentPage
            /\ state' = state
            /\ runs[r].alone => KeepsPages(runs'[r], state')
            /\ writable => storage' = Json(StoredSelectionData(state', now))]_vars

\* a run for two ids took one id from page 1, the fetch of page 2 failed, and
\* the stored record holds the id of page 1
C12_Witness ==
    \E r \in RunIds :
        /\ lastCall.op = "bulkSelect.stop"
        /\ runs[r].pc = "done"
        /\ runs[r].end = "error"
        /\ runs[r].alone
        /\ runs[r].currentPage = 2
        /\ Len(runs[r].fetched) = 2
        /\ runs[r].fetched[1].res = Fetched(<<1>>)
        /\ runs[r].fetched[2].res = FetchError
        /\ state.selectedIds = {1}
        /\ state.pageSelections = MapSet(EmptyMap, 1, {1})
        /\ IsRecord(storage)
        /\ NewSet(storage.data.selectedIds) = {1}

\* C13: a bulkSelect run that stopped because the fetch of a page failed
\* reports the failure to its caller: the promise it returned is rejected.
C13_FetchFailureIsSurfaced ==
    \A r \in RunIds :
        (/\ lastCall.op = "bulkSelect.stop"
         /\ runs[r].pc = "done"
         /\ runs[r].end = "error") => lastCall.threw

\* every fetch of the log but the last returned ids
AllButLastApplied(log) ==
    \A i \in 1..Len(log) : i < Len(log) => i \in Processed(log)

\* C14: the fetches of one run are for pages startPage, startPage + 1, ... in
\* that order, none skipped or repeated; a run awaits one fetch at a time, the
\* one of the page after those it applied; and when that fetch is issued the
\* ids of every earlier page are in the selection (no other call having come
\* in between).
C14_PagesFetchedInOrder ==
    \A r \in RunIds :
        LET run == runs[r]
            log == run.fetched
        IN  run.pc \in {"awaiting", "done"} =>
              /\ \A i \in 1..Len(log) : log[i].page = run.startPage + i - 1
              /\ \A i, j \in 1..Len(log) : i < j => log[i].page < log[j].page
              /\ run.pc = "awaiting" =>
                    /\ run.currentPage = run.startPage + Len(log)
                    /\ Processed(log) = 1..Len(log)
                    /\ run.alone => KeepsPages(run, state)
              /\ AllButLastApplied(log)

\* a run for 1000 ids started on page 1 has applied pages 1 and 2 and awaits
\* page 3
C14_Witness ==
    \E r \in RunIds :
        /\ runs[r].pc = "awaiting"
        /\ runs[r].alone
        /\ runs[r].count = MAX_BULK_SELECTION
        /\ runs[r].startPage = 1
        /\ runs[r].currentPage = 3
        /\ Len(runs[r].fetched) = 2
        /\ DOMAIN state.pageSelections = {1, 2}

\* C15: every bulk run that was started returns, whatever the fetches give:
\* while it is suspended its remaining count is positive and smaller by at
\* least one for every page fetched, and its page is within the ceiling; a
\* run that ends at the ceiling returns normally, with the page it applied
\* last and the earlier ones selected (no other call having come in between).
C15_BulkRunTerminates ==
    /\ \A r \in RunIds : (runs[r].pc = "awaiting") ~> (runs[r].pc = "done")
    /\ [][\A r \in RunIds :
            /\ runs'[r].pc = "awaiting" =>
                  /\ runs'[r].remainingCount > 0
                  /\ runs'[r].remainingCount
                        <= runs'[r].count - Len(runs'[r].fetched)
                  /\ runs'[r].currentPage <= PAGE_CEILING
            /\ (runs'[r].pc = "done" /\ runs'[r].end = "ceiling") =>
                  /\ lastCall'.op = "bulkSelect.page"
                  /\ ~lastCall'.threw
                  /\ Processed(runs'[r].fetched) = 1..Len(runs'[r].fetched)
                  /\ runs'[r].alone => KeepsPages(runs'[r], state')]_vars

\* a run for 1000 ids started on page 999 took pages 999 and 1000 and was
\* stopped by the ceiling
C15_Witness ==
    \E r \in RunIds :
        /\ runs[r].pc = "done"
        /\ runs[r].end = "ceiling"
        /\ runs[r].count = MAX_BULK_SELECTION
        /\ runs[r].startPage = PAGE_CEILING - 1
        /\ runs[r].currentPage = PAGE_CEILING + 1
        /\ runs[r].remainingCount > 0
        /\ ~lastCall.threw
        /\ {PAGE_CEILING - 1, PAGE_CEILING} \subseteq DOMAIN state.pageSelections

\* the record that a bulkSelect call with these arguments stores at time t
BulkRecord(run, t) ==
    [count |-> run.count, startPage |-> run.startPage, timestamp |-> t]

\* C16: a bulkSelect call with a valid count sets lastBulkSelection to its
\* count, its start page and the time of the call before any fetch has
\* settled; no step of the run changes it, and when the run has returned (at
\* the count, on an empty page, on a failed fetch or at the ceiling) it is
\* still that record, no other call having come in between.
C16_LastBulkSelectionRecorded ==
    [][\A r \in RunIds :
         /\ (lastCall'.op = "bulkSelect" /\ ~lastCall'.threw
                /\ runs'[r].pc = "awaiting" /\ runs'[r].fetched = <<>>
                /\ runs[r].pc # "awaiting") =>
               state'.lastBulkSelection = {BulkRecord(runs'[r], now)}
         /\ (\E res \in {Fetched(l) : l \in IdLists} \cup {FetchError} :
                SettlesWith(r, res)) =>
               state'.lastBulkSelection = state.lastBulkSelection
         /\ (runs'[r].pc \in {"awaiting", "done"} /\ runs'[r].alone) =>
               \E t \in Times :
                  /\ t <= now'
                  /\ state'.lastBulkSelection = {BulkRecord(runs'[r], t)}]_vars

\* a run for two ids, started on page 1 after one expiry window, stopped on
\* a failed fetch one millisecond later with one page applied, and the record
\* of the call is in place
C16_Witness ==
    \E r \in RunIds :
        /\ runs[r].pc = "done"
        /\ runs[r].end = "error"
        /\ runs[r].alone
        /\ Len(runs[r].fetched) = 2
        /\ state.selectedIds # {}
        /\ now = expiryTime + 1
        /\ state.lastBulkSelection =
              {[count |-> 2, startPage |-> 1, timestamp |-> expiryTime]}

(***************************************************************************)
(* Algebra of the mutators.                                                *)
(***************************************************************************)
\* C17: in every reachable state, for every page p and id, selectRow(p, id)
\* called twice gives the same selectedIds, pageSelections and totalSelected
\* as called once, and after the call id is in selectedIds and in the set of
\* page p.
C17_SelectRowIdempotent ==
    \A p \in Pages, id \in Ids :
        LET once == selectRow(World, p, id, now, writable)
            twice == selectRow(once, p, id, now, writable)
        IN  /\ SameSelection(twice.state, once.state)
            /\ id \in once.state.selectedIds
            /\ p \in DOMAIN once.state.pageSelections
            /\ id \in once.state.pageSelections[p]
            /\ ~once.threw /\ ~twice.threw

\* selectRow has returned with id 1 selected on pages 1 and 2 and counted
\* once; selecting it again on either page changes nothing
C17_Witness ==
    /\ lastCall.op = "selectRow"
    /\ state.selectedIds = {1}
    /\ state.totalSelected = 1
    /\ state.pageSelections = MapSet(MapSet(EmptyMap, 1, {1}), 2, {1})
    /\ \A p \in Pages :
          SameSelection(selectRow(World, p, 1, now, writable).state, state)

\* C18: in every reachable state, deselectRow(p, id) for an id that is not in
\* selectedIds leaves selectedIds, pageSelections and totalSelected unchanged.
C18_DeselectUnselectedIsNoOp ==
    \A p \in Pages, id \in Ids :
        id \notin state.selectedIds =>
            SameSelection(deselectRow(World, p, id, now, writable).state, state)

\* C19: in every reachable state, for every page p and id list,
\* selectAllOnPage(p, ids) followed by deselectAllOnPage(p) leaves no entry
\* for p in pageSelections and none of the ids in selectedIds.
C19_SelectAllThenDeselectAll ==
    \A p \in Pages, ids \in IdLists :
        LET w1 == selectAllOnPage(World, p, ids, now, writable)
            w2 == deselectAllOnPage(w1, p, now, writable)
        IN  /\ p \notin DOMAIN w2.state.pageSelections
            /\ Range(ids) \cap w2.state.selectedIds = {}
            /\ ~w1.threw /\ ~w2.threw

\* deselectAllOnPage has returned with page 1 gone and no id selected, while
\* page 2 still holds id 1: the entry of page 1 held id 1 too
C19_Witness ==
    /\ lastCall.op = "deselectAllOnPage"
    /\ state.selectedIds = {}
    /\ state.pageSelections = MapSet(EmptyMap, 2, {1})
    /\ state.totalSelected = 0

\* the stored entry is a record of the selection s written at time t
RecordOf(st, s, t) ==
    /\ IsRecord(st)
    /\ st.data.selectedIds.t = "arr"
    /\ Range(st.data.selectedIds.v) = s.selectedIds
    /\ st.data.pageSelections.t = "obj"
    /\ {ParseInt(k) : k \in DOMAIN st.data.pageSelections.v}
          = DOMAIN s.pageSelections
    /\ \A k \in DOMAIN st.data.pageSelections.v :
          /\ st.data.pageSelections.v[k].t = "arr"
          /\ Range(st.data.pageSelections.v[k].v) = s.pageSelections[ParseInt(k)]
    /\ st.data.totalSelected = s.totalSelected
    /\ st.data.timestamp = t

\* C20: with storage writes succeeding, right after selectRow, deselectRow,
\* selectAllOnPage, deselectAllOnPage, clearAllSelections, and every step of a
\* bulk run that applies a page or ends the run, the stored record holds the
\* selectedIds, pageSelections and totalSelected of the manager.
C20_StoredRecordFollowsMutation ==
    /\ (lastCall.op \in SavingCalls /\ writable) => RecordOf(storage, state, now)
    /\ \A r \in RunIds :
          (runs[r].pc = "done" /\ writable) => RecordOf(storage, state, now)

\* a bulk run for two ids has returned with both taken from page 1, and the
\* record holds them
C20_Witness ==
    \E r \in RunIds :
        /\ writable
        /\ runs[r].pc = "done"
        /\ runs[r].end = "count"
        /\ state.selectedIds = {1, 2}
        /\ state.pageSelections = MapSet(EmptyMap, 1, {1, 2})
        /\ state.totalSelected = 2
        /\ storage = Json(StoredSelectionData(state, now))

(***************************************************************************)
(* Effects and frames of the mutators.                                     *)
(***************************************************************************)
\* the pages other than p whose set holds id
OtherPagesWith(s, p, id) ==
    {q \in DOMAIN s.pageSelections \ {p} : id \in s.pageSelections[q]}

\* C21: in every reachable state, for every page p and id list,
\* selectAllOnPage(p, ids) leaves under p exactly the ids of the list, and an
\* id that was under p and is not in the list is no longer in selectedIds
\* unless another page holds it.
C21_SelectAllOnPageReplaces ==
    \A p \in Pages, ids \in IdLists :
        LET after == selectAllOnPage(World, p, ids, now, writable).state
            dropped == IF p \in DOMAIN state.pageSelections
                       THEN state.pageSelections[p] \ Range(ids)
                       ELSE {}
        IN  /\ after.pageSelections[p] = Range(ids)
            /\ \A id \in dropped :
                  OtherPagesWith(state, p, id) = {} => id \notin after.selectedIds

\* C22: clearAllSelections, called in any reachable state, leaves selectedIds
\* and pageSelections empty, totalSelected 0 and lastBulkSelection unset, does
\* not throw, and with storage writes succeeding the stored record is that of
\* the empty state.
C22_ClearAllEmptiesAndPersists ==
    [][lastCall'.op = "clearAllSelections" =>
         /\ state'.selectedIds = {}
         /\ state'.pageSelections = EmptyMap
         /\ state'.totalSelected = 0
         /\ state'.lastBulkSelection = NoBulk
         /\ ~lastCall'.threw
         /\ writable => storage' = Json(StoredSelectionData(EmptyState, now))]_vars

\* clearAllSelections was called while a bulk run that had applied a page was
\* suspended: the ids of that page and the bulk metadata are gone
C22_Witness ==
    \E r \in RunIds :
        /\ lastCall.op = "clearAllSelections"
        /\ runs[r].pc = "awaiting"
        /\ Len(runs[r].fetched) = 1
        /\ ~runs[r].alone
        /\ state = EmptyState
        /\ storage = Json(StoredSelectionData(EmptyState, now))

\* C23: after a construction that found a stored record, and after
\* importState, totalSelected is the number of ids in selectedIds, whatever
\* count the record carries.
C23_TotalDerivedFromSelectedIds ==
    (\/ lastCall.op = "importState"
     \/ lastCall.op = "construct" /\ IsRecord(lastCall.before)) =>
        state.totalSelected = Cardinality(state.selectedIds)

\* the entry of page q, or its absence, is the same in a and b
SameEntry(a, b, q) ==
    /\ q \in DOMAIN a.pageSelections <=> q \in DOMAIN b.pageSelections
    /\ q \in DOMAIN a.pageSelections =>
          a.pageSelections[q] = b.pageSelections[q]

\* every page that has an entry before or after
PagesOf(a, b) == DOMAIN a.pageSelections \cup DOMAIN b.pageSelections

\* C24: selectRow, deselectRow and selectAllOnCurrentPage called through the
\* view binding while the table shows a page other than 1 leave the entry of
\* page 1 and of every page but the current one as it was.
C24_ViewBindingTouchesCurrentPageOnly ==
    [][(/\ lastCall'.op \in {"hook.selectRow", "hook.deselectRow",
                              "hook.selectAllOnCurrentPage"}
        /\ currentPage # 1) =>
          \A q \in PagesOf(state, state') \ {currentPage} :
              SameEntry(state, state', q)]_vars

\* C25: in every reachable state, deselectAllOnPage(p) leaves the entry of
\* every page other than p as it was, and when p has no entry it leaves
\* selectedIds, pageSelections and totalSelected unchanged.
C25_DeselectAllOnPageFrame ==
    \A p \in Pages :
        LET after == deselectAllOnPage(World, p, now, writable).state
        IN  /\ \A q \in PagesOf(state, after) \ {p} : SameEntry(state, after, q)
            /\ p \notin DOMAIN state.pageSelections => SameSelection(after, state)

\* C26: a construction that finds the storage unparsable, unreadable or
\* unavailable completes without throwing and gives the empty state.
C26_StartupNeverFails ==
    (/\ lastCall.op = "construct"
     /\ lastCall.before.kind \in {"garbage", "unreadable", "unavailable"}) =>
        (~lastCall.threw /\ state = EmptyState)

\* C27: a bulk run that has returned without a fetch failure after fewer than
\* 1000 pages either took all the ids it was asked for or found its last
\* page empty, wherever it started.
C27_RunStopsAtCountOrEmptyPage ==
    \A r \in RunIds :
        LET run == runs[r] IN
        (/\ run.pc = "done"
         /\ run.end # "error"
         /\ Len(run.fetched) < PAGE_CEILING) =>
            \/ run.remainingCount = 0
            \/ /\ Len(run.fetched) > 0
               /\ run.fetched[Len(run.fetched)].res.ids = <<>>

\* C28: a bulk run writes the stored record once, when it returns: a step
\* that applies a page and suspends the run again leaves the storage entry as
\* it was.
C28_BulkRunWritesOnce ==
    [][\A r \in RunIds :
         (/\ runs[r].pc = "awaiting"
          /\ runs'[r].pc = "awaiting"
          /\ Len(runs'[r].fetched) = Len(runs[r].fetched) + 1) =>
            storage' = storage]_vars

\* C29: whenever a mutator or a step of a bulk run has returned control to
\* the event loop, with bulk runs suspended or not, totalSelected is the
\* number of elements of selectedIds.
C29_CountHoldsBetweenHandlers ==
    lastCall.op # "construct" =>
        state.totalSelected = Cardinality(state.selectedIds)

(***************************************************************************)
(* The table.                                                              *)
(***************************************************************************)
\* C30: when the table has finished loading a page, the rows it marks as
\* selected are the rows of that page whose ids are in the entry of that page
\* in pageSelections, whichever page it is.
C30_LoadedPageShowsItsSelection ==
    [][lastCall'.op = "table.loaded" =>
         table'.selectedArtworks =
            Range(table'.artworks) \cap getPageSelections(state', table'.rowsOf)]_vars

IsHttp(error, hundreds) == error.status \div 100 = hundreds

HookOperations ==
    {"hook.selectRow", "hook.deselectRow", "hook.selectAllOnCurrentPage",
     "hook.deselectAllOnCurrentPage", "hook.clearSelections", "hook.bulkSelect"}

\* C33: after each operation issued through the view binding (selectRow,
\* deselectRow, selectAllOnCurrentPage, deselectAllOnCurrentPage,
\* clearSelections, bulkSelect) the selectedCount of the hook is the
\* totalSelected of the manager.
C33_ShownCountTracksManager ==
    lastCall.op \in HookOperations => selectedCount = state.totalSelected

\* the hook shows 2 after a second row was selected on page 2 through it
C33_Witness ==
    /\ lastCall.op = "hook.selectRow"
    /\ currentPage = 2
    /\ state.selectedIds = {1, 2}
    /\ DOMAIN state.pageSelections = {1, 2}
    /\ selectedCount = 2

C35_ExpiryBoundary ==
    (/\ lastCall.op = "construct"
     /\ IsRecord(lastCall.before)
     /\ ~Malformed(lastCall.before)) =>
        LET data == lastCall.before.data
            age == now - data.timestamp
        IN  /\ expiryTime = 24 * 60 * 60 * 1000
            /\ IF age <= expiryTime
               THEN /\ storage = lastCall.before
                    /\ state.selectedIds = NewSet(data.selectedIds)
                    /\ state.pageSelections = RestoredPages(data.pageSelections.v)
                    /\ state.totalSelected = data.totalSelected
               ELSE state = EmptyState /\ storage = Absent

\* a record holding a selection was found when its age was the window exactly
C35_Witness ==
    /\ lastCall.op = "construct"
    /\ IsRecord(lastCall.before)
    /\ ~Malformed(lastCall.before)
    /\ now - lastCall.before.data.timestamp = expiryTime
    /\ state.selectedIds # {}
    /\ storage = lastCall.before

(***************************************************************************)
(* The URL.                                                                *)
(***************************************************************************)
AllDigits(s) == s # <<>> /\ \A i \in 1..Len(s) : IsDigit(s[i])
NoDigit(s) == \A i \in 1..Len(s) : ~IsDigit(s[i])

C37_PageRangeShape ==
    (/\ lastCall.op = "getPageRange"
     /\ 1 <= pager.currentPage
     /\ pager.currentPage <= pager.totalPages
     /\ pager.maxVisible >= 1) =>
        LET pages == pager.pages IN
        /\ \A i \in 1..(Len(pages) - 1) : pages[i + 1] = pages[i] + 1
        /\ \A i \in 1..Len(pages) : pages[i] \in 1..pager.totalPages
        /\ Len(pages) = Min(pager.maxVisible, pager.totalPages)
        /\ \E i \in 1..Len(pages) : pages[i] = pager.currentPage

\* the links of the last of 7 pages with the default of 5 links: 3 to 7
C37_Witness ==
    /\ lastCall.op = "getPageRange"
    /\ pager.currentPage = 7
    /\ pager.totalPages = 7
    /\ pager.maxVisible = 5
    /\ pager.pages = <<3, 4, 5, 6, 7>>

====
